---- MODULE Spec2Model ----
(***************************************************************************)
(* A model of four parts of the mega repository:                          *)
(*   - libra `clone` (libra/src/command/clone.rs): execute and setup,      *)
(*     with the scope guard that deletes the clone directory;              *)
(*   - jupiter batch_save_model (jupiter/src/storage/mod.rs);              *)
(*   - saturn AppContext::is_authorized (saturn/src/context.rs);           *)
(*   - the mega `service` command (mega/src/commands/service/mod.rs).      *)
(* Each part has its own specification over the shared variable tuple;     *)
(* the variables of the other parts stay at their initial values.          *)
(***************************************************************************)
EXTENDS Integers, Sequences, FiniteSets, TLC

VARIABLES
    \* ---- libra clone ----
    pc,             \* position of `execute` / `setup`
    local_path,     \* state of the destination directory: absent | empty | nonempty
    preexisting,    \* state of the destination directory when execute started
    is_success,     \* the Cell<bool> the scope guard reads
    guard,          \* "none" (defer! not reached yet) | "armed" | "ran"
    panicked,       \* a panic is unwinding / has unwound execute
    stderr,         \* lines written with eprintln!
    stdout,         \* lines written with println!
    head,           \* local HEAD
    branches,       \* local branches: name -> commit or NoCommit
    remotes,        \* remote-tracking branches origin/<name>
    origin_head,    \* remote-tracking HEAD of origin (Head::remote_current)
    config,         \* config entries inserted
    worktree,       \* commit whose tree is materialised in the working tree
    remote_refs,    \* the remote's advertised branches
    remote_HEAD,    \* the remote's HEAD
    fetch_returned, \* history: fetch_repository has returned
    setup_begun,    \* history: setup has been entered
    \* ---- jupiter batch_save_model ----
    table,          \* the entity's table: key -> stored payload or NoRow
    save_models,    \* per call: the Vec<A> handed to batch_save_model
    bpc,            \* per call: idle | joining | returned
    results,        \* per call: the Vec of insert futures built by the loop
    ret,            \* per call: the value returned
    \* ---- saturn AppContext ----
    parent_entities, \* the EntityStore read from the parent project's .mega.json
    entities,        \* the EntityStore read from the repository's own .mega.json
    merged,          \* entities.merge(parent_entities) has run
    policy_src,      \* the policy set parsed from the policies file
    ctx,             \* the AppContext, NoCtx before AppContext::new, or its error
    request,         \* the last (principal, action, resource) asked
    response,        \* what is_authorized returned for it
    consulted,       \* whether that call reached Authorizer::is_authorized
    \* ---- mega service command ----
    spc,            \* position of `exec`
    subcommand,     \* args.subcommand(): a name, or NoSubcommand
    events,         \* calls made by this invocation, in order
    sresult,        \* value returned by exec
    past_runs       \* earlier invocations: their subcommand, events and result

cloneVars == <<pc, local_path, preexisting, is_success, guard, panicked, stderr,
               stdout, head, branches, remotes, origin_head, config, worktree,
               remote_refs, remote_HEAD, fetch_returned, setup_begun>>

batchVars == <<table, save_models, bpc, results, ret>>

authVars == <<parent_entities, entities, merged, policy_src, ctx, request,
              response, consulted>>

svcVars == <<spc, subcommand, events, sresult, past_runs>>

vars == <<cloneVars, batchVars, authVars, svcVars>>

----------------------------------------------------------------------------
(* Bounds *)

\* commits are 1..MaxCommit
MaxCommit == 2

\* the longest vector saved by call "a" spans MaxChunks chunks
MaxChunks == 2

\* the service command is invoked at most MaxRuns times
MaxRuns == 2

----------------------------------------------------------------------------
(* libra clone: values *)

ORIGIN == "origin"

BranchNames == {"master", "main"}
Commit(i) == <<"commit", i>>
Commits == {Commit(i) : i \in 1..MaxCommit}
NoCommit == <<"none", 0>>

\* the branch `init` attaches HEAD to when initial_branch is None
DefaultBranch == "master"

HeadNone == [kind |-> "None"]
HeadBranch(n) == [kind |-> "Branch", name |-> n]
HeadDetached(c) == [kind |-> "Detached", commit |-> c]

NoBranches == [n \in BranchNames |-> NoCommit]

FatalExists == "fatal: destination path already exists and is not an empty directory."
FatalCreate == "fatal: could not create directory"
FatalCloneFailed == "fatal: clone failed, delete repo directory automatically"
FatalDetached == "fatal: remote HEAD points to a detached commit"
WarnEmpty == "warning: You appear to have cloned an empty repository."
CloningInto == "Cloning into"

\* config keys written by setup: <<section, subsection, key, value>>
CfgRemoteUrl == <<"remote", ORIGIN, "url", "remote_repo">>
CfgMerge(n) == <<"branch", n, "merge", "refs/heads/" \o n>>
CfgRemote(n) == <<"branch", n, "remote", ORIGIN>>

\* the commit HEAD resolves to: one symbolic hop through a local branch
ResolveHead(h, br) ==
    IF h.kind = "Branch" THEN br[h.name]
    ELSE IF h.kind = "Detached" THEN h.commit
    ELSE NoCommit

\* remotes the clone may be pointed at: zero refs means an unborn HEAD
RemoteStates ==
    { r \in [refs : [BranchNames -> Commits \cup {NoCommit}],
             HEAD : {HeadNone} \cup {HeadBranch(n) : n \in BranchNames}
                    \cup {HeadDetached(c) : c \in Commits}] :
        /\ (\A n \in BranchNames : r.refs[n] = NoCommit) => r.HEAD = HeadNone
        /\ r.HEAD.kind = "Detached" =>
              \E n \in BranchNames : r.refs[n] # NoCommit }

----------------------------------------------------------------------------
(* libra clone: Init *)

InitClone ==
    /\ pc = "start"
    /\ local_path \in {"absent", "empty", "nonempty"}
    /\ preexisting = local_path
    /\ is_success = FALSE
    /\ guard = "none"
    /\ panicked = FALSE
    /\ stderr = {}
    /\ stdout = {}
    /\ head = HeadNone
    /\ branches = NoBranches
    /\ remotes = NoBranches
    /\ origin_head = HeadNone
    /\ config = {}
    /\ worktree = NoCommit
    /\ \E r \in RemoteStates : remote_refs = r.refs /\ remote_HEAD = r.HEAD
    /\ fetch_returned = FALSE
    /\ setup_begun = FALSE

----------------------------------------------------------------------------
(* libra clone: execute *)

CloneFrame == UNCHANGED <<batchVars, authVars, svcVars>>

\* fs::remove_dir_all(&local_path): the directory and the repository in it go
RemoveDirAll ==
    /\ local_path' = "absent"
    /\ head' = HeadNone
    /\ branches' = NoBranches
    /\ remotes' = NoBranches
    /\ origin_head' = HeadNone
    /\ config' = {}
    /\ worktree' = NoCommit

\* destination exists and is not an empty directory: fatal, return
CheckPathExists ==
    /\ pc = "start"
    /\ local_path = "nonempty"
    /\ stderr' = stderr \cup {FatalExists}
    /\ pc' = "returned"
    /\ UNCHANGED <<local_path, preexisting, is_success, guard, panicked, stdout,
                   head, branches, remotes, origin_head, config, worktree,
                   remote_refs, remote_HEAD, fetch_returned, setup_begun>>
    /\ CloneFrame

\* fs::create_dir_all succeeds (an existing empty directory is accepted)
CreateDirOk ==
    /\ pc = "start"
    /\ local_path # "nonempty"
    /\ local_path' = "empty"
    /\ stdout' = stdout \cup {CloningInto}
    /\ pc' = "defer"
    /\ UNCHANGED <<preexisting, is_success, guard, panicked, stderr,
                   head, branches, remotes, origin_head, config, worktree,
                   remote_refs, remote_HEAD, fetch_returned, setup_begun>>
    /\ CloneFrame

\* fs::create_dir_all fails: fatal, return
CreateDirErr ==
    /\ pc = "start"
    /\ local_path = "absent"
    /\ stderr' = stderr \cup {FatalCreate}
    /\ pc' = "returned"
    /\ UNCHANGED <<local_path, preexisting, is_success, guard, panicked, stdout,
                   head, branches, remotes, origin_head, config, worktree,
                   remote_refs, remote_HEAD, fetch_returned, setup_begun>>
    /\ CloneFrame

\* let is_success = Cell::new(false); defer! { ... }
RegisterGuard ==
    /\ pc = "defer"
    /\ is_success' = FALSE
    /\ guard' = "armed"
    /\ pc' = "chdir"
    /\ UNCHANGED <<local_path, preexisting, panicked, stderr, stdout,
                   head, branches, remotes, origin_head, config, worktree,
                   remote_refs, remote_HEAD, fetch_returned, setup_begun>>
    /\ CloneFrame

\* env::set_current_dir(&local_path).unwrap()
SetCurrentDir ==
    /\ pc = "chdir"
    /\ pc' = "init"
    /\ UNCHANGED <<local_path, preexisting, is_success, guard, panicked, stderr,
                   stdout, head, branches, remotes, origin_head, config, worktree,
                   remote_refs, remote_HEAD, fetch_returned, setup_begun>>
    /\ CloneFrame

\* command::init::execute: a fresh repository, HEAD attached to the default
\* branch, which does not resolve yet
InitExecute ==
    /\ pc = "init"
    /\ local_path' = "nonempty"
    /\ head' = HeadBranch(DefaultBranch)
    /\ branches' = NoBranches
    /\ pc' = "init_return"
    /\ UNCHANGED <<preexisting, is_success, guard, panicked, stderr, stdout,
                   remotes, origin_head, config, worktree,
                   remote_refs, remote_HEAD, fetch_returned, setup_begun>>
    /\ CloneFrame

\* a variant of CallFetch that goes on to setup without fetching
CallFetchSkipped ==
    /\ pc = "init_return"
    /\ pc' = "setup"
    /\ UNCHANGED <<local_path, preexisting, is_success, guard, panicked, stderr,
                   stdout, head, branches, remotes, origin_head, config, worktree,
                   remote_refs, remote_HEAD, fetch_returned, setup_begun>>
    /\ CloneFrame

\* fetch::fetch_repository(&remote_config, None).await is entered
CallFetch ==
    /\ pc = "init_return"
    /\ pc' = "fetch"
    /\ UNCHANGED <<local_path, preexisting, is_success, guard, panicked, stderr,
                   stdout, head, branches, remotes, origin_head, config, worktree,
                   remote_refs, remote_HEAD, fetch_returned, setup_begun>>
    /\ CloneFrame

\* fetch: the ref advertisement is received; zero refs end the fetch at once
FetchAdvertise ==
    /\ pc = "fetch"
    /\ pc' = IF \A n \in BranchNames : remote_refs[n] = NoCommit
             THEN "fetch_return" ELSE "fetch_pack"
    /\ UNCHANGED <<local_path, preexisting, is_success, guard, panicked, stderr,
                   stdout, head, branches, remotes, origin_head, config, worktree,
                   remote_refs, remote_HEAD, fetch_returned, setup_begun>>
    /\ CloneFrame

\* fetch: the pack is received and its objects are written
FetchPack ==
    /\ pc = "fetch_pack"
    /\ pc' = "fetch_refs"
    /\ UNCHANGED <<local_path, preexisting, is_success, guard, panicked, stderr,
                   stdout, head, branches, remotes, origin_head, config, worktree,
                   remote_refs, remote_HEAD, fetch_returned, setup_begun>>
    /\ CloneFrame

\* fetch: one remote-tracking branch origin/<n> is written
FetchUpdateRef ==
    /\ pc = "fetch_refs"
    /\ \E n \in BranchNames :
          /\ remote_refs[n] # NoCommit
          /\ remotes[n] = NoCommit
          /\ remotes' = [remotes EXCEPT ![n] = remote_refs[n]]
    /\ UNCHANGED <<pc, local_path, preexisting, is_success, guard, panicked, stderr,
                   stdout, head, branches, origin_head, config, worktree,
                   remote_refs, remote_HEAD, fetch_returned, setup_begun>>
    /\ CloneFrame

\* fetch: every advertised branch is written; the remote-tracking HEAD is set
FetchUpdateHead ==
    /\ pc = "fetch_refs"
    /\ \A n \in BranchNames : remotes[n] = remote_refs[n]
    /\ origin_head' = remote_HEAD
    /\ pc' = "fetch_return"
    /\ UNCHANGED <<local_path, preexisting, is_success, guard, panicked, stderr,
                   stdout, head, branches, remotes, config, worktree,
                   remote_refs, remote_HEAD, fetch_returned, setup_begun>>
    /\ CloneFrame

\* fetch_repository returns; execute goes on to setup(remote_repo.clone())
FetchReturn ==
    /\ pc = "fetch_return"
    /\ fetch_returned' = TRUE
    /\ pc' = "setup"
    /\ UNCHANGED <<local_path, preexisting, is_success, guard, panicked, stderr,
                   stdout, head, branches, remotes, origin_head, config, worktree,
                   remote_refs, remote_HEAD, setup_begun>>
    /\ CloneFrame

----------------------------------------------------------------------------
(* libra clone: setup *)

\* match remote_head { Some(Head::Branch(name)) => Branch::find_branch(..) }
SetupBranch ==
    /\ pc = "setup"
    /\ origin_head.kind = "Branch"
    /\ setup_begun' = TRUE
    /\ pc' = "find_branch"
    /\ UNCHANGED <<local_path, preexisting, is_success, guard, panicked, stderr,
                   stdout, head, branches, remotes, origin_head, config, worktree,
                   remote_refs, remote_HEAD, fetch_returned>>
    /\ CloneFrame

\* Some(Head::Detached(_)) => eprintln!("fatal: ..."), and setup returns
SetupDetached ==
    /\ pc = "setup"
    /\ origin_head.kind = "Detached"
    /\ setup_begun' = TRUE
    /\ stderr' = stderr \cup {FatalDetached}
    /\ pc' = "setup_return"
    /\ UNCHANGED <<local_path, preexisting, is_success, guard, panicked,
                   stdout, head, branches, remotes, origin_head, config, worktree,
                   remote_refs, remote_HEAD, fetch_returned>>
    /\ CloneFrame

\* a variant of SetupNone that also creates and checks out the default branch
SetupNoneAttaches ==
    /\ pc = "setup"
    /\ origin_head.kind = "None"
    /\ setup_begun' = TRUE
    /\ stdout' = stdout \cup {WarnEmpty}
    /\ branches' = [branches EXCEPT ![DefaultBranch] = Commit(1)]
    /\ config' = config \cup {CfgRemoteUrl, CfgMerge("master"), CfgRemote("master")}
    /\ pc' = "setup_return"
    /\ UNCHANGED <<local_path, preexisting, is_success, guard, panicked, stderr,
                   head, remotes, origin_head, worktree,
                   remote_refs, remote_HEAD, fetch_returned>>
    /\ CloneFrame

\* None => the warning and the three Config::insert calls; no branch, no HEAD
SetupNone ==
    /\ pc = "setup"
    /\ origin_head.kind = "None"
    /\ setup_begun' = TRUE
    /\ stdout' = stdout \cup {WarnEmpty}
    /\ config' = config \cup {CfgRemoteUrl, CfgMerge("master"), CfgRemote("master")}
    /\ pc' = "setup_return"
    /\ UNCHANGED <<local_path, preexisting, is_success, guard, panicked, stderr,
                   head, branches, remotes, origin_head, worktree,
                   remote_refs, remote_HEAD, fetch_returned>>
    /\ CloneFrame

\* Branch::find_branch(&name, Some(ORIGIN)) finds origin/<name>
FindBranchOk ==
    /\ pc = "find_branch"
    /\ remotes[origin_head.name] # NoCommit
    /\ pc' = "update_branch"
    /\ UNCHANGED <<local_path, preexisting, is_success, guard, panicked, stderr,
                   stdout, head, branches, remotes, origin_head, config, worktree,
                   remote_refs, remote_HEAD, fetch_returned, setup_begun>>
    /\ CloneFrame

\* .expect("origin HEAD branch not found") panics
FindBranchPanic ==
    /\ pc = "find_branch"
    /\ remotes[origin_head.name] = NoCommit
    /\ panicked' = TRUE
    /\ pc' = "unwind"
    /\ UNCHANGED <<local_path, preexisting, is_success, guard, stderr,
                   stdout, head, branches, remotes, origin_head, config, worktree,
                   remote_refs, remote_HEAD, fetch_returned, setup_begun>>
    /\ CloneFrame

\* a variant of UpdateBranch that leaves the local branch unwritten
UpdateBranchSkipped ==
    /\ pc = "update_branch"
    /\ pc' = "head_update"
    /\ UNCHANGED <<local_path, preexisting, is_success, guard, panicked, stderr,
                   stdout, head, branches, remotes, origin_head, config, worktree,
                   remote_refs, remote_HEAD, fetch_returned, setup_begun>>
    /\ CloneFrame

\* Branch::update_branch(&name, &origin_head_branch.commit.to_string(), None)
UpdateBranch ==
    /\ pc = "update_branch"
    /\ branches' = [branches EXCEPT ![origin_head.name] = remotes[origin_head.name]]
    /\ pc' = "head_update"
    /\ UNCHANGED <<local_path, preexisting, is_success, guard, panicked, stderr,
                   stdout, head, remotes, origin_head, config, worktree,
                   remote_refs, remote_HEAD, fetch_returned, setup_begun>>
    /\ CloneFrame

\* Head::update(Head::Branch(name.to_owned()), None)
HeadUpdate ==
    /\ pc = "head_update"
    /\ head' = HeadBranch(origin_head.name)
    /\ pc' = "config"
    /\ UNCHANGED <<local_path, preexisting, is_success, guard, panicked, stderr,
                   stdout, branches, remotes, origin_head, config, worktree,
                   remote_refs, remote_HEAD, fetch_returned, setup_begun>>
    /\ CloneFrame

\* the three Config::insert calls of the Branch arm
ConfigInsert ==
    /\ pc = "config"
    /\ config' = config \cup {CfgRemoteUrl, CfgMerge(origin_head.name),
                              CfgRemote(origin_head.name)}
    /\ pc' = "restore"
    /\ UNCHANGED <<local_path, preexisting, is_success, guard, panicked, stderr,
                   stdout, head, branches, remotes, origin_head, worktree,
                   remote_refs, remote_HEAD, fetch_returned, setup_begun>>
    /\ CloneFrame

\* command::restore::execute: worktree and index restored from HEAD
Restore ==
    /\ pc = "restore"
    /\ worktree' = ResolveHead(head, branches)
    /\ pc' = "setup_return"
    /\ UNCHANGED <<local_path, preexisting, is_success, guard, panicked, stderr,
                   stdout, head, branches, remotes, origin_head, config,
                   remote_refs, remote_HEAD, fetch_returned, setup_begun>>
    /\ CloneFrame

\* setup returned: is_success.set(true), and execute leaves its scope
SetSuccess ==
    /\ pc = "setup_return"
    /\ is_success' = TRUE
    /\ pc' = "exit"
    /\ UNCHANGED <<local_path, preexisting, guard, panicked, stderr,
                   stdout, head, branches, remotes, origin_head, config, worktree,
                   remote_refs, remote_HEAD, fetch_returned, setup_begun>>
    /\ CloneFrame

\* the calls made while the guard is armed that can unwind: set_current_dir's
\* unwrap, init, fetch_repository, and the calls setup awaits
PanicPoints == {"chdir", "init", "fetch", "fetch_pack", "fetch_refs",
                "update_branch", "head_update", "config", "restore"}

Panic ==
    /\ pc \in PanicPoints
    /\ panicked' = TRUE
    /\ pc' = "unwind"
    /\ UNCHANGED <<local_path, preexisting, is_success, guard, stderr,
                   stdout, head, branches, remotes, origin_head, config, worktree,
                   remote_refs, remote_HEAD, fetch_returned, setup_begun>>
    /\ CloneFrame

\* the defer! block, run when execute's scope is left by return or by unwinding
GuardCleanup ==
    /\ pc \in {"exit", "unwind"}
    /\ guard = "armed"
    /\ ~is_success
    /\ RemoveDirAll
    /\ stderr' = stderr \cup {FatalCloneFailed}
    /\ guard' = "ran"
    /\ pc' = "done"
    /\ UNCHANGED <<preexisting, is_success, panicked, stdout,
                   remote_refs, remote_HEAD, fetch_returned, setup_begun>>
    /\ CloneFrame

GuardDisarmed ==
    /\ pc \in {"exit", "unwind"}
    /\ guard = "armed"
    /\ is_success
    /\ guard' = "ran"
    /\ pc' = "done"
    /\ UNCHANGED <<local_path, preexisting, is_success, panicked, stderr,
                   stdout, head, branches, remotes, origin_head, config, worktree,
                   remote_refs, remote_HEAD, fetch_returned, setup_begun>>
    /\ CloneFrame

NextClone ==
    \/ CheckPathExists \/ CreateDirOk \/ CreateDirErr
    \/ RegisterGuard \/ SetCurrentDir \/ InitExecute \/ CallFetch
    \/ FetchAdvertise \/ FetchPack \/ FetchUpdateRef \/ FetchUpdateHead
    \/ FetchReturn
    \/ SetupBranch \/ SetupDetached \/ SetupNone
    \/ FindBranchOk \/ FindBranchPanic \/ UpdateBranch \/ HeadUpdate
    \/ ConfigInsert \/ Restore \/ SetSuccess
    \/ Panic \/ GuardCleanup \/ GuardDisarmed

----------------------------------------------------------------------------
(* libra clone: properties *)

ZeroRefs == \A n \in BranchNames : remote_refs[n] = NoCommit

\* C1: every run of execute that got past the directory check and then failed
\* (a panic unwound it, or it printed the detached-HEAD "fatal:" line) ends
\* with the local directory removed and the clone failure reported.
C1_FailedCloneRemovesDirectory ==
    (pc = "done" /\ (panicked \/ FatalDetached \in stderr))
        => (local_path = "absent" /\ FatalCloneFailed \in stderr)

\* the part of C1 the guard does deliver: an unwound run ends with the
\* directory removed and the failure reported
C1_PanicRemovesDirectory ==
    (pc = "done" /\ panicked)
        => (local_path = "absent" /\ FatalCloneFailed \in stderr)

C1_Witness_DetachedRetained ==
    /\ pc = "done"
    /\ FatalDetached \in stderr
    /\ local_path = "nonempty"

\* C2: a clone of a remote that advertises zero refs, when nothing unwinds it,
\* succeeds: the empty-repository warning is printed, no local branch exists,
\* HEAD is still attached to the default branch and does not resolve, the
\* guard finds is_success set and the directory is kept; and wherever setup
\* took its None arm it wrote no branch and left HEAD as init did.
C2_EmptyRemoteClone ==
    /\ (pc = "done" /\ ZeroRefs /\ ~panicked) =>
          /\ is_success
          /\ guard = "ran"
          /\ WarnEmpty \in stdout
          /\ FatalCloneFailed \notin stderr
          /\ local_path = "nonempty"
          /\ branches = NoBranches
          /\ head = HeadBranch(DefaultBranch)
          /\ ResolveHead(head, branches) = NoCommit
          /\ worktree = NoCommit
    /\ (WarnEmpty \in stdout /\ local_path # "absent") =>
          /\ branches = NoBranches
          /\ head = HeadBranch(DefaultBranch)

C2_Witness_EmptyCloneKept ==
    /\ pc = "done"
    /\ ZeroRefs
    /\ is_success
    /\ WarnEmpty \in stdout
    /\ local_path = "nonempty"

\* the pcs of setup's Branch arm after Head::update has run
AfterHeadUpdate == {"config", "restore", "setup_return", "exit", "done"}

C3_Final ==
    (pc = "done" /\ ~panicked /\ remote_HEAD.kind = "Branch"
        /\ remote_refs[remote_HEAD.name] # NoCommit) =>
          /\ is_success
          /\ branches[remote_HEAD.name] = remote_refs[remote_HEAD.name]
          /\ branches[remote_HEAD.name] = remotes[remote_HEAD.name]
          /\ head = HeadBranch(remote_HEAD.name)
          /\ worktree = remote_refs[remote_HEAD.name]

C3_Attached ==
    (setup_begun /\ origin_head.kind = "Branch" /\ pc \in AfterHeadUpdate
        /\ local_path # "absent") =>
          /\ head = HeadBranch(origin_head.name)
          /\ ResolveHead(head, branches) = remotes[origin_head.name]
          /\ ResolveHead(head, branches) # NoCommit

C3_HeadAfterBranch ==
    (setup_begun /\ head' # head /\ head'.kind = "Branch") =>
          /\ branches[head'.name] = remotes[head'.name]
          /\ branches[head'.name] # NoCommit
          /\ branches' = branches
          /\ worktree = NoCommit /\ worktree' = NoCommit

C3_RestoreLast ==
    (worktree' # worktree /\ worktree' # NoCommit) =>
          /\ head = HeadBranch(origin_head.name)
          /\ head' = head /\ branches' = branches
          /\ worktree' = branches[origin_head.name]

BeforeSetup == {"init_return", "fetch", "fetch_pack", "fetch_refs",
                "fetch_return", "setup"}

\* C4: setup, the only writer of local branches and HEAD in clone, is entered
\* only after fetch_repository has returned; while fetch runs, and in a run
\* that unwinds before setup is entered, the local branches and HEAD are what
\* init left (no branch, HEAD attached to the default branch).
C4_NoRefUpdateBeforeSetup ==
    /\ setup_begun => fetch_returned
    /\ pc \in BeforeSetup =>
          (branches = NoBranches /\ head = HeadBranch(DefaultBranch))
    /\ (pc = "unwind" /\ ~setup_begun) =>
          (branches = NoBranches /\ head \in {HeadNone, HeadBranch(DefaultBranch)})

C4_Witness_FetchAborted ==
    /\ pc = "unwind"
    /\ ~setup_begun
    /\ \E n \in BranchNames : remotes[n] # NoCommit
    /\ branches = NoBranches
    /\ head = HeadBranch(DefaultBranch)

\* nothing of the repository state or of the destination has been written
Untouched ==
    /\ head = HeadNone
    /\ branches = NoBranches
    /\ remotes = NoBranches
    /\ origin_head = HeadNone
    /\ config = {}
    /\ worktree = NoCommit
    /\ guard = "none"
    /\ ~setup_begun
    /\ ~fetch_returned

\* the part of C12 the directory check does deliver: a destination that
\* exists and is not empty stops execute with the fatal line before the guard
\* is registered, and nothing is written or removed
C12_NonEmptyDestinationUntouched ==
    preexisting = "nonempty" =>
        /\ pc \in {"start", "returned"}
        /\ local_path = "nonempty"
        /\ Untouched
        /\ pc = "returned" => (stderr = {FatalExists} /\ stdout = {})

\* C12: clone removes the destination directory only if clone created it: a
\* destination that exists and is not empty makes execute report the fatal
\* line and return without init, fetch or setup and without writing or
\* removing anything, and a destination directory that existed when execute
\* started is never removed by the cleanup guard.
C12_RemovesOnlyWhatItCreated ==
    /\ C12_NonEmptyDestinationUntouched
    /\ preexisting # "absent" => local_path # "absent"

C12_Witness_ExistingEmptyDirRemoved ==
    /\ preexisting = "empty"
    /\ pc = "done"
    /\ guard = "ran"
    /\ FatalCloneFailed \in stderr
    /\ local_path = "absent"

----------------------------------------------------------------------------
(* jupiter batch_save_model: values *)

\* save_models.chunks(1000)
ChunkSize == 1000

\* two calls run concurrently on one connection pool
Calls == {"a", "b"}

Keys == {"k1", "k2"}
Payloads == {"v1", "v2"}
NoRow == "none"

\* a model: its conflict key (primary key) and the rest of its columns
Rows == {[id |-> "k1", val |-> "v1"], [id |-> "k1", val |-> "v2"],
         [id |-> "k2", val |-> "v1"]}

EmptyTable == [k \in Keys |-> NoRow]

\* the number of chunks slice::chunks yields for a slice of n elements
NumChunks(n) == (n + ChunkSize - 1) \div ChunkSize

\* a variant of Chunks that drops the final short chunk (chunks_exact)
ChunksExact(n) ==
    [k \in 1..(n \div ChunkSize) |->
        [lo |-> (k - 1) * ChunkSize + 1, hi |-> k * ChunkSize]]

\* save_models.chunks(1000) over a vector of n models: consecutive index
\* ranges lo..hi, all of ChunkSize elements but possibly the last
Chunks(n) ==
    [k \in 1..NumChunks(n) |->
        [lo |-> (k - 1) * ChunkSize + 1,
         hi |-> IF k * ChunkSize < n THEN k * ChunkSize ELSE n]]

\* vector lengths around the chunk boundaries, spanning at most m chunks
Lens(m) == {0, 1} \cup {q * ChunkSize + r : q \in 1..(m - 1), r \in {0, 1}}
                  \cup {m * ChunkSize}

\* A vector is given by its length and, for each run of ChunkSize positions,
\* the model that fills that run.
Vectors(m) ==
    UNION { { [len |-> n, blk |-> b] : b \in [1..NumChunks(n) -> Rows] } :
            n \in Lens(m) }

\* the model at position i (1-based) of vector v
ModelAt(v, i) == v.blk[((i - 1) \div ChunkSize) + 1]

\* The positions of lo..hi at which a key can occur first: lo, and every
\* position i of lo..hi that starts a new run of the vector, i.e. with
\* (i - 1) % ChunkSize = 0.
Heads(lo, hi) ==
    {lo} \cup { q * ChunkSize + 1 :
                  q \in ((lo + ChunkSize - 2) \div ChunkSize)..((hi - 1) \div ChunkSize) }

\* the first position of lo..hi whose model has key k
FirstWithKey(v, lo, hi, k) ==
    CHOOSE i \in Heads(lo, hi) :
        /\ ModelAt(v, i).id = k
        /\ \A j \in Heads(lo, hi) : j < i => ModelAt(v, j).id # k

KeysOf(v, lo, hi) == { ModelAt(v, i).id : i \in Heads(lo, hi) }

\* a variant of InsertMany that overwrites the row of a key that exists
InsertManyOverwrite(t, v, lo, hi) ==
    [k \in Keys |->
        IF k \in KeysOf(v, lo, hi)
        THEN ModelAt(v, FirstWithKey(v, lo, hi, k)).val
        ELSE t[k]]

\* E::insert_many(chunk).on_conflict(do_nothing).exec: one INSERT statement;
\* a row whose key is stored already, or occurs earlier in the statement, is
\* skipped
InsertMany(t, v, lo, hi) ==
    [k \in Keys |->
        IF t[k] # NoRow THEN t[k]
        ELSE IF k \in KeysOf(v, lo, hi)
             THEN ModelAt(v, FirstWithKey(v, lo, hi, k)).val
             ELSE NoRow]

InitBatch ==
    /\ table = EmptyTable
    /\ \E va \in Vectors(MaxChunks), vb \in Vectors(1) :
          save_models = [c \in Calls |-> IF c = "a" THEN va ELSE vb]
    /\ bpc = [c \in Calls |-> "idle"]
    /\ results = [c \in Calls |-> <<>>]
    /\ ret = [c \in Calls |-> "none"]

\* the values these variables keep while another part of the model runs
BatchRest ==
    /\ table = EmptyTable
    /\ save_models = [c \in Calls |-> [len |-> 0, blk |-> <<>>]]
    /\ bpc = [c \in Calls |-> "idle"]
    /\ results = [c \in Calls |-> <<>>]
    /\ ret = [c \in Calls |-> "none"]

CloneRest ==
    /\ pc = "start"
    /\ local_path = "absent"
    /\ preexisting = "absent"
    /\ is_success = FALSE
    /\ guard = "none"
    /\ panicked = FALSE
    /\ stderr = {}
    /\ stdout = {}
    /\ head = HeadNone
    /\ branches = NoBranches
    /\ remotes = NoBranches
    /\ origin_head = HeadNone
    /\ config = {}
    /\ worktree = NoCommit
    /\ remote_refs = NoBranches
    /\ remote_HEAD = HeadNone
    /\ fetch_returned = FALSE
    /\ setup_begun = FALSE

BatchFrame == UNCHANGED <<cloneVars, authVars, svcVars>>

----------------------------------------------------------------------------
(* jupiter batch_save_model_with_conflict *)

\* the for loop: one lazy insert future per chunk, pushed to `results`;
\* join_all then starts polling them
BuildFutures(c) ==
    /\ bpc[c] = "idle"
    /\ results' = [results EXCEPT ![c] =
          [k \in DOMAIN Chunks(save_models[c].len) |->
              [lo |-> Chunks(save_models[c].len)[k].lo,
               hi |-> Chunks(save_models[c].len)[k].hi,
               st |-> "pending"]]]
    /\ bpc' = [bpc EXCEPT ![c] = "joining"]
    /\ UNCHANGED <<table, save_models, ret>>
    /\ BatchFrame

\* one chunk's INSERT completes on the database
InsertOk(c) ==
    /\ bpc[c] = "joining"
    /\ \E k \in DOMAIN results[c] :
          /\ results[c][k].st = "pending"
          /\ table' = InsertMany(table, save_models[c],
                                 results[c][k].lo, results[c][k].hi)
          /\ results' = [results EXCEPT ![c][k].st = "ok"]
    /\ UNCHANGED <<save_models, bpc, ret>>
    /\ BatchFrame

\* one chunk's INSERT fails with a DbErr: the statement writes nothing
InsertErr(c) ==
    /\ bpc[c] = "joining"
    /\ \E k \in DOMAIN results[c] :
          /\ results[c][k].st = "pending"
          /\ results' = [results EXCEPT ![c][k].st = "err"]
    /\ UNCHANGED <<table, save_models, bpc, ret>>
    /\ BatchFrame

\* join_all(results).await is over, its Vec of Results is dropped: Ok(())
BatchReturn(c) ==
    /\ bpc[c] = "joining"
    /\ \A k \in DOMAIN results[c] : results[c][k].st # "pending"
    /\ ret' = [ret EXCEPT ![c] = "Ok"]
    /\ bpc' = [bpc EXCEPT ![c] = "returned"]
    /\ UNCHANGED <<table, save_models, results>>
    /\ BatchFrame

NextBatch ==
    \E c \in Calls :
        \/ BuildFutures(c)
        \/ InsertOk(c)
        \/ InsertErr(c)
        \/ BatchReturn(c)

----------------------------------------------------------------------------
(* jupiter batch_save_model: properties *)

AllOk(c) == \A k \in DOMAIN results[c] : results[c][k].st = "ok"

AllReturnedOk == \A c \in Calls : bpc[c] = "returned" /\ AllOk(c)

\* C5: a call returns Ok only when every one of its chunk inserts succeeded
\* (a failed insert makes it return a MegaError).
C5_FailedInsertIsReported ==
    \A c \in Calls : (bpc[c] = "returned" /\ ret[c] = "Ok") => AllOk(c)

C5_Witness_FailedSaveReturnsOk ==
    \E c \in Calls :
        /\ bpc[c] = "returned"
        /\ ret[c] = "Ok"
        /\ \E k \in DOMAIN results[c] : results[c][k].st = "err"

\* the table after the chunks k.. of ch are inserted one after another
RECURSIVE ApplyChunks(_, _, _, _)
ApplyChunks(t, v, ch, k) ==
    IF k > Len(ch) THEN t
    ELSE ApplyChunks(InsertMany(t, v, ch[k].lo, ch[k].hi), v, ch, k + 1)

\* the table when call "a" runs alone, chunk by chunk in order, then call "b"
SequentialTable ==
    LET ta == ApplyChunks(EmptyTable, save_models["a"],
                          Chunks(save_models["a"].len), 1)
    IN ApplyChunks(ta, save_models["b"], Chunks(save_models["b"].len), 1)

Stored(t) == { k \in Keys : t[k] # NoRow }

ModelsOf(v) == IF v.len = 0 THEN {} ELSE { ModelAt(v, i) : i \in Heads(1, v.len) }

AllModels == UNION { ModelsOf(save_models[c]) : c \in Calls }

KeyDeterminesPayload ==
    \A m1 \in AllModels, m2 \in AllModels : m1.id = m2.id => m1.val = m2.val

C6_Final ==
    AllReturnedOk =>
        /\ Stored(table) = Stored(SequentialTable)
        /\ \A k \in Stored(table) : \E m \in AllModels : m.id = k /\ m.val = table[k]
        /\ KeyDeterminesPayload => table = SequentialTable

C6_Step ==
    /\ \A k \in Keys : table[k] # NoRow => table'[k] = table[k]
    /\ \A c \in Calls : \A k \in DOMAIN results[c] :
          (results[c][k].st = "pending" /\ results'[c][k].st = "ok") =>
              /\ Stored(table') = Stored(table)
                    \cup KeysOf(save_models[c], results[c][k].lo, results[c][k].hi)
              /\ KeysOf(save_models[c], results[c][k].lo, results[c][k].hi)
                    \subseteq Stored(table) => table' = table

Partitioned(c) ==
    LET r == results[c]
        n == save_models[c].len
    IN /\ (n = 0) <=> (Len(r) = 0)
       /\ Len(r) > 0 => (r[1].lo = 1 /\ r[Len(r)].hi = n)
       /\ \A k \in DOMAIN r :
             r[k].lo <= r[k].hi /\ r[k].hi - r[k].lo + 1 <= ChunkSize
       /\ \A k \in 1..(Len(r) - 1) : r[k + 1].lo = r[k].hi + 1

\* C9: the insert futures a call builds cover positions 1..len of its vector
\* in consecutive ranges of at most ChunkSize positions, each position in
\* exactly one range; an empty vector builds no future; before the loop no
\* future exists; and the call has returned only when no future is pending.
C9_ChunksPartitionInput ==
    \A c \in Calls :
        /\ bpc[c] = "idle" => results[c] = <<>>
        /\ bpc[c] # "idle" => Partitioned(c)
        /\ bpc[c] = "returned" =>
              \A k \in DOMAIN results[c] : results[c][k].st # "pending"

C9_Witness_TwoChunks ==
    /\ bpc["a"] = "returned"
    /\ save_models["a"].len = ChunkSize + 1
    /\ Len(results["a"]) = 2
    /\ results["a"][1].hi = ChunkSize
    /\ results["a"][2].lo = ChunkSize + 1
    /\ results["a"][2].hi = ChunkSize + 1

----------------------------------------------------------------------------
(* saturn: entities, schema and policies *)

User(u) == <<"User", u>>
UserGroup(g) == <<"UserGroup", g>>
Repository(r) == <<"Repository", r>>
Action(a) == <<"Action", a>>

Users == {"benjamin.747", "private", "anyone"}

\* the repositories of test/project and test/project/private
ProjectRepo == Repository("project")
PrivateRepo == Repository("project/private")
ProjectAdmins == UserGroup("project_admin")
PrivateAdmins == UserGroup("private_admin")

\* An EntityStore: the parent edges of its users and groups, and its
\* repositories with their attributes.
ParentStore(admins, public) ==
    [members |-> { <<User(u), ProjectAdmins>> : u \in admins },
     repos |-> { [uid |-> ProjectRepo, is_public |-> public,
                  admins |-> ProjectAdmins] }]

\* the nested repository's store: its own admins, and the parent project's
\* admin group as a member of its admin group
NestedStore(admins, public) ==
    [members |-> { <<User(u), PrivateAdmins>> : u \in admins }
                 \cup { <<ProjectAdmins, PrivateAdmins>> },
     repos |-> { [uid |-> PrivateRepo, is_public |-> public,
                  admins |-> PrivateAdmins] }]

EmptyStore == [members |-> {}, repos |-> {}]

\* EntityStore::merge: the entities of `other` are added to those of `self`
Merge(self, other) ==
    [members |-> self.members \cup other.members,
     repos |-> self.repos \cup other.repos]

\* mega.cedarschema: the declared actions, all applying to User on Repository
DeclaredActions == {"viewRepo", "deleteRepo", "openIssue", "assignIssue",
                    "approveMergeRequest"}

Schema == [actions |-> DeclaredActions,
           principalTypes |-> {"User"},
           resourceTypes |-> {"Repository"}]

\* mega_policies.cedar
PermitPublic ==
    [id |-> "public", effect |-> "permit",
     actions |-> {"viewRepo", "openIssue"}, when |-> "resource.is_public"]

PermitAdmin ==
    [id |-> "admin", effect |-> "permit",
     actions |-> DeclaredActions, when |-> "principal in resource.admins"]

MegaPolicies == {PermitPublic, PermitAdmin}

\* further policies a policies file may hold
ForbidDeletePublic ==
    [id |-> "no_delete", effect |-> "forbid",
     actions |-> {"deleteRepo"}, when |-> "resource.is_public"]

PermitUndeclared ==
    [id |-> "undeclared", effect |-> "permit",
     actions |-> {"mergeRepo"}, when |-> "true"]

\* text that is not a policy
NotAPolicy ==
    [id |-> "syntax", effect |-> "unparsed", actions |-> {}, when |-> "true"]

PolicyFiles == { {}, {PermitPublic}, MegaPolicies,
                 MegaPolicies \cup {ForbidDeletePublic},
                 MegaPolicies \cup {PermitUndeclared},
                 {PermitPublic, NotAPolicy} }

\* policy_src.parse() is Ok
Parses(policy_text) ==
    \A pol \in policy_text : pol.effect \in {"permit", "forbid"}

\* Validator::validate: every action a policy names is declared
ValidationErrors(policies, schema) ==
    { pol.id : pol \in { q \in policies : ~(q.actions \subseteq schema.actions) } }

----------------------------------------------------------------------------
(* cedar_policy: Request::new and Authorizer::is_authorized *)

\* Request::new(principal, action, resource, context, Some(&schema))
RequestNew(p, a, r, schema) ==
    IF a[2] \notin schema.actions
    THEN [ok |-> FALSE, err |-> "undeclared action"]
    ELSE IF p[1] \notin schema.principalTypes
    THEN [ok |-> FALSE, err |-> "invalid principal type"]
    ELSE IF r[1] \notin schema.resourceTypes
    THEN [ok |-> FALSE, err |-> "invalid resource type"]
    ELSE [ok |-> TRUE, principal |-> p, action |-> a, resource |-> r]

\* the ancestors of uid x in the entity hierarchy
RECURSIVE AncestorsOf(_, _)
AncestorsOf(es, S) ==
    LET up == { e[2] : e \in { m \in es.members : m[1] \in S } }
    IN IF up \subseteq S THEN S ELSE AncestorsOf(es, S \cup up)

HasRepo(es, r) == \E x \in es.repos : x.uid = r
RepoOf(es, r) == CHOOSE x \in es.repos : x.uid = r

\* the value of a policy on a request: "true", "false" or "error"
Evaluate(pol, q, es) ==
    IF q.action[2] \notin pol.actions THEN "false"
    ELSE IF pol.when = "true" THEN "true"
    ELSE IF ~HasRepo(es, q.resource) THEN "error"
    ELSE IF pol.when = "resource.is_public"
         THEN (IF RepoOf(es, q.resource).is_public THEN "true" ELSE "false")
         ELSE (IF RepoOf(es, q.resource).admins \in AncestorsOf(es, {q.principal})
               THEN "true" ELSE "false")

Satisfied(effect, q, policies, es) ==
    { pol.id : pol \in { x \in policies :
                           x.effect = effect /\ Evaluate(x, q, es) = "true" } }

\* Authorizer::is_authorized: a satisfied forbid denies; else a satisfied
\* permit allows; else deny
AuthorizerIsAuthorized(q, policies, es) ==
    LET forbids == Satisfied("forbid", q, policies, es)
        permits == Satisfied("permit", q, policies, es)
        errors == { pol.id : pol \in { x \in policies : Evaluate(x, q, es) = "error" } }
    IN IF forbids # {}
       THEN [decision |-> "Deny", diagnostics |-> [reason |-> forbids, errors |-> errors]]
       ELSE IF permits # {}
       THEN [decision |-> "Allow", diagnostics |-> [reason |-> permits, errors |-> errors]]
       ELSE [decision |-> "Deny", diagnostics |-> [reason |-> {}, errors |-> errors]]

----------------------------------------------------------------------------
(* saturn AppContext *)

NoCtx == [tag |-> "none"]
NoRequest == <<>>
NoResponse == [tag |-> "none"]

OkResult == [tag |-> "Ok"]
AuthDenied(d) == [tag |-> "AuthDenied", diagnostics |-> d]
ErrorRequest(m) == [tag |-> "Request", msg |-> m]

\* a variant of is_authorized that returns Ok whatever the decision
IsAuthorizedIgnoresDecision(c, p, a, r) ==
    LET q == RequestNew(p, a, r, c.schema)
    IN IF ~q.ok
       THEN [result |-> ErrorRequest(q.err), consulted |-> FALSE]
       ELSE [result |-> OkResult, consulted |-> TRUE]

\* a variant of is_authorized that hands the authorizer no entities
IsAuthorizedWithoutEntities(c, p, a, r) ==
    LET q == RequestNew(p, a, r, c.schema)
    IN IF ~q.ok
       THEN [result |-> ErrorRequest(q.err), consulted |-> FALSE]
       ELSE LET resp == AuthorizerIsAuthorized(q, c.policies, EmptyStore)
            IN [result |-> IF resp.decision = "Allow" THEN OkResult
                           ELSE AuthDenied(resp.diagnostics),
                consulted |-> TRUE]

\* AppContext::is_authorized(&self, principal, action, resource, context)
is_authorized(c, p, a, r) ==
    LET q == RequestNew(p, a, r, c.schema)
    IN IF ~q.ok
       THEN [result |-> ErrorRequest(q.err), consulted |-> FALSE]
       ELSE LET resp == AuthorizerIsAuthorized(q, c.policies, c.entities)
            IN [result |-> IF resp.decision = "Allow" THEN OkResult
                           ELSE AuthDenied(resp.diagnostics),
                consulted |-> TRUE]

Principals == { User(u) : u \in Users } \cup { ProjectAdmins }
AskedActions == { Action(a) : a \in {"viewRepo", "deleteRepo", "assignIssue", "mergeRepo"} }
Resources == { ProjectRepo, PrivateRepo }

InitAuth ==
    /\ \E pa \in SUBSET Users, pub \in BOOLEAN :
          parent_entities = ParentStore(pa, pub)
    /\ \E na \in SUBSET Users, pub \in BOOLEAN :
          entities = NestedStore(na, pub)
    /\ merged = FALSE
    /\ policy_src \in PolicyFiles
    /\ ctx = NoCtx
    /\ request = NoRequest
    /\ response = NoResponse
    /\ consulted = FALSE

AuthRest ==
    /\ parent_entities = EmptyStore
    /\ entities = EmptyStore
    /\ merged = FALSE
    /\ policy_src = {}
    /\ ctx = NoCtx
    /\ request = NoRequest
    /\ response = NoResponse
    /\ consulted = FALSE

AuthFrame == UNCHANGED <<cloneVars, batchVars, svcVars>>

\* entities.merge(parent_entities)
MergeParent ==
    /\ ctx = NoCtx
    /\ ~merged
    /\ entities' = Merge(entities, parent_entities)
    /\ merged' = TRUE
    /\ UNCHANGED <<parent_entities, policy_src, ctx, request, response, consulted>>
    /\ AuthFrame

\* the ContextError values new returns through `?`, and the panic of an unwrap
ContextErrorIO == [tag |-> "IO"]
ContextErrorJson == [tag |-> "Json"]
ContextErrorPolicy == [tag |-> "Policy"]
Panicked(cause) == [tag |-> "panic", cause |-> cause]

\* the ways Schema::from_file_natural fails: reading the opened file, or
\* parsing what was read
SchemaFailures == {"IO", "Schema"}

\* AppContext::new: File::open(schema_path)?, File::open(entities_path)? or
\* read_to_string(policies_path)? is Err
AppContextNewIoErr ==
    /\ ctx = NoCtx
    /\ ctx' = ContextErrorIO
    /\ UNCHANGED <<parent_entities, entities, merged, policy_src, request,
                   response, consulted>>
    /\ AuthFrame

\* AppContext::new: Schema::from_file_natural(schema_file).unwrap() on an Err
AppContextNewSchemaUnwrap ==
    /\ ctx = NoCtx
    /\ \E cause \in SchemaFailures : ctx' = Panicked(cause)
    /\ UNCHANGED <<parent_entities, entities, merged, policy_src, request,
                   response, consulted>>
    /\ AuthFrame

\* AppContext::new: serde_json::from_reader(entities_file)? is Err
AppContextNewJsonErr ==
    /\ ctx = NoCtx
    /\ ctx' = ContextErrorJson
    /\ UNCHANGED <<parent_entities, entities, merged, policy_src, request,
                   response, consulted>>
    /\ AuthFrame

\* AppContext::new: policy_src.parse()? is Err
AppContextNewPolicyErr ==
    /\ ctx = NoCtx
    /\ ~Parses(policy_src)
    /\ ctx' = ContextErrorPolicy
    /\ UNCHANGED <<parent_entities, entities, merged, policy_src, request,
                   response, consulted>>
    /\ AuthFrame

\* AppContext::new: validation passed, Ok(Self { entities, policies, schema })
AppContextNewOk ==
    /\ ctx = NoCtx
    /\ Parses(policy_src)
    /\ ValidationErrors(policy_src, Schema) = {}
    /\ ctx' = [tag |-> "AppContext", entities |-> entities,
               policies |-> policy_src, schema |-> Schema]
    /\ UNCHANGED <<parent_entities, entities, merged, policy_src, request,
                   response, consulted>>
    /\ AuthFrame

\* AppContext::new: Err(ContextError::Validation(..))
AppContextNewInvalid ==
    /\ ctx = NoCtx
    /\ Parses(policy_src)
    /\ ValidationErrors(policy_src, Schema) # {}
    /\ ctx' = [tag |-> "Validation",
               errors |-> ValidationErrors(policy_src, Schema)]
    /\ UNCHANGED <<parent_entities, entities, merged, policy_src, request,
                   response, consulted>>
    /\ AuthFrame

\* app_context.is_authorized(&principal, action, &resource, Context::empty());
\* the call takes &self and changes nothing, so one call per behaviour is kept
IsAuthorized ==
    /\ ctx.tag = "AppContext"
    /\ request = NoRequest
    /\ \E p \in Principals, a \in AskedActions, r \in Resources :
          /\ request' = <<p, a, r>>
          /\ response' = is_authorized(ctx, p, a, r).result
          /\ consulted' = is_authorized(ctx, p, a, r).consulted
    /\ UNCHANGED <<parent_entities, entities, merged, policy_src, ctx>>
    /\ AuthFrame

NextAuth ==
    \/ MergeParent
    \/ AppContextNewIoErr \/ AppContextNewSchemaUnwrap \/ AppContextNewJsonErr
    \/ AppContextNewPolicyErr
    \/ AppContextNewOk \/ AppContextNewInvalid
    \/ IsAuthorized

----------------------------------------------------------------------------
(* mega service command *)

NoSubcommand == "(none)"

\* the subcommands cli() registers
Servers == {"http", "https", "ssh", "multi"}

\* what args.subcommand() can yield
Subcommands == Servers \cup {NoSubcommand, "other"}

InitMqEvent == "init_mq"

\* a variant of ExecOf with the https arm calling the http module
ExecOfHttpTwice(cmd) ==
    IF cmd = "https" THEN "http" ELSE cmd

\* match cmd { "http" => http::exec, "https" => https::exec, "ssh" =>
\* ssh::exec, "multi" => multi::exec }: the module whose exec is called
ExecOf(cmd) ==
    CASE cmd = "http" -> "http"
      [] cmd = "https" -> "https"
      [] cmd = "ssh" -> "ssh"
      [] cmd = "multi" -> "multi"

InitSvc ==
    /\ spc = "start"
    /\ subcommand \in Subcommands
    /\ events = <<>>
    /\ sresult = "none"
    /\ past_runs = <<>>

SvcRest ==
    /\ spc = "start"
    /\ subcommand = NoSubcommand
    /\ events = <<>>
    /\ sresult = "none"
    /\ past_runs = <<>>

SvcFrame == UNCHANGED <<cloneVars, batchVars, authVars>>

\* init_mq(&config).await
InitMq ==
    /\ spc = "start"
    /\ events' = Append(events, InitMqEvent)
    /\ spc' = "match"
    /\ UNCHANGED <<subcommand, sresult, past_runs>>
    /\ SvcFrame

\* args.subcommand() is None: return Ok(())
NoSubcommandGiven ==
    /\ spc = "match"
    /\ subcommand = NoSubcommand
    /\ sresult' = "Ok"
    /\ spc' = "returned"
    /\ UNCHANGED <<subcommand, events, past_runs>>
    /\ SvcFrame

\* match cmd { .. _ => Ok(()) }
UnknownSubcommand ==
    /\ spc = "match"
    /\ subcommand \notin Servers \cup {NoSubcommand}
    /\ sresult' = "Ok"
    /\ spc' = "returned"
    /\ UNCHANGED <<subcommand, events, past_runs>>
    /\ SvcFrame

\* one of the four arms: <module>::exec(config, subcommand_args) is entered
Dispatch ==
    /\ spc = "match"
    /\ subcommand \in Servers
    /\ spc' = ExecOf(subcommand)
    /\ UNCHANGED <<subcommand, events, sresult, past_runs>>
    /\ SvcFrame

\* ssh::exec: SshOptions::from_arg_matches fails, err.exit() ends the process
SshArgsError ==
    /\ spc = "ssh"
    /\ spc' = "exited"
    /\ UNCHANGED <<subcommand, events, sresult, past_runs>>
    /\ SvcFrame

\* ssh::exec: start_server(config, &server_matchers) is called
SshStartServer ==
    /\ spc = "ssh"
    /\ events' = Append(events, "ssh")
    /\ spc' = "serving"
    /\ UNCHANGED <<subcommand, sresult, past_runs>>
    /\ SvcFrame

\* http::exec, https::exec, multi::exec: the module starts its server
OtherStartServer ==
    /\ spc \in {"http", "https", "multi"}
    /\ events' = Append(events, spc)
    /\ spc' = "serving"
    /\ UNCHANGED <<subcommand, sresult, past_runs>>
    /\ SvcFrame

\* start_server(..).await is over; the module's exec, then exec, return Ok(())
ServerReturns ==
    /\ spc = "serving"
    /\ sresult' = "Ok"
    /\ spc' = "returned"
    /\ UNCHANGED <<subcommand, events, past_runs>>
    /\ SvcFrame

\* the command is run again, in a new process
RunAgain ==
    /\ spc \in {"returned", "exited"}
    /\ Len(past_runs) + 1 < MaxRuns
    /\ past_runs' = Append(past_runs,
          [subcommand |-> subcommand, events |-> events, sresult |-> sresult])
    /\ spc' = "start"
    /\ subcommand' \in Subcommands
    /\ events' = <<>>
    /\ sresult' = "none"
    /\ SvcFrame

NextSvc ==
    \/ InitMq \/ NoSubcommandGiven \/ UnknownSubcommand \/ Dispatch
    \/ SshArgsError \/ SshStartServer \/ OtherStartServer \/ ServerReturns
    \/ RunAgain

----------------------------------------------------------------------------
(* saturn: properties *)

Asked == request # NoRequest

\* the request of the last call, as Request::new builds it
AskedRequest == RequestNew(request[1], request[2], request[3], ctx.schema)

\* the authorizer's answer to the last call's request
Decision == AuthorizerIsAuthorized(AskedRequest, ctx.policies, ctx.entities)

\* some permit policy of the context holds for the last call's request
SomePermitHolds ==
    \E pol \in ctx.policies :
        pol.effect = "permit" /\ Evaluate(pol, AskedRequest, ctx.entities) = "true"

\* C7: is_authorized returns Ok exactly when the request can be constructed
\* and the authorizer's decision for it is Allow; a Deny decision returns
\* AuthDenied with the decision's diagnostics; a request that cannot be
\* constructed returns Error::Request and the authorizer is not consulted;
\* and a request no permit policy holds for is denied.
C7_IsAuthorizedFollowsDecision ==
    Asked =>
        /\ AskedRequest.ok => consulted
        /\ (response = OkResult) <=>
              (AskedRequest.ok /\ Decision.decision = "Allow")
        /\ (AskedRequest.ok /\ Decision.decision = "Deny") =>
              response = AuthDenied(Decision.diagnostics)
        /\ ~AskedRequest.ok => (response.tag = "Request" /\ ~consulted)
        /\ (AskedRequest.ok /\ ~SomePermitHolds) => response.tag = "AuthDenied"

C7_Witness_DeniedByForbid ==
    /\ Asked
    /\ response.tag = "AuthDenied"
    /\ response.diagnostics.reason = {"no_delete"}
    /\ SomePermitHolds

\* the users whose parent is group g in store es
DirectMembers(es, g) == { u \in Users : <<User(u), g>> \in es.members }

C11_ValidatedContextOnly ==
    /\ ctx.tag = "AppContext" =>
          /\ ctx.policies = policy_src
          /\ Parses(ctx.policies)
          /\ ValidationErrors(ctx.policies, ctx.schema) = {}
    /\ ctx.tag = "Validation" =>
          /\ ctx.errors = ValidationErrors(policy_src, Schema)
          /\ ctx.errors # {}
    /\ ctx.tag = "Policy" => ~Parses(policy_src)
    /\ Asked =>
          /\ ctx.tag = "AppContext"
          /\ ValidationErrors(ctx.policies, ctx.schema) = {}

\* C11: AppContext::new yields a context only for a policy set that passes
\* validation against the schema, validation errors are returned as
\* ContextError::Validation so that is_authorized is never asked of an
\* unvalidated policy set, and every IO, JSON or policy-parse failure ends
\* new with a ContextError value, never otherwise.
C11_NewYieldsContextOrError ==
    /\ C11_ValidatedContextOnly
    /\ ctx.tag = "panic" => ctx.cause \notin {"IO", "Json", "Policy"}

C11_Witness_SchemaReadPanics ==
    /\ ctx = Panicked("IO")
    /\ ~Asked

----------------------------------------------------------------------------
(* mega service command: properties *)

\* the events of an invocation of subcommand cmd that is at position p
RunIsOrderly(cmd, ev, p, res) ==
    /\ Len(ev) <= 2
    /\ Len(ev) >= 1 => ev[1] = InitMqEvent
    /\ Len(ev) = 2 => (cmd \in Servers /\ ev[2] = cmd)
    /\ p # "start" => Len(ev) >= 1
    /\ p = "returned" =>
          /\ res = "Ok"
          /\ cmd \in Servers => ev = <<InitMqEvent, cmd>>
          /\ cmd \notin Servers => ev = <<InitMqEvent>>
    /\ p # "returned" => res = "none"

\* C10: in every invocation init_mq is the first call and is made once; the
\* only server started is the one of the subcommand given, at most once;
\* when exec has returned it returned Ok, having started exactly that server
\* for http, https, ssh and multi and none for a missing or unknown
\* subcommand.
C10_ServiceExec ==
    /\ RunIsOrderly(subcommand, events, spc, sresult)
    /\ \A i \in DOMAIN past_runs :
          RunIsOrderly(past_runs[i].subcommand, past_runs[i].events,
                       IF past_runs[i].sresult = "Ok" THEN "returned" ELSE "exited",
                       past_runs[i].sresult)

C10_Witness_HttpsServed ==
    /\ spc = "returned"
    /\ subcommand = "https"
    /\ events = <<InitMqEvent, "https">>
    /\ sresult = "Ok"

----------------------------------------------------------------------------
(* Specifications *)

InitCloneSpec == InitClone /\ BatchRest /\ AuthRest /\ SvcRest

SpecClone == InitCloneSpec /\ [][NextClone]_vars

InitBatchSpec == InitBatch /\ CloneRest /\ AuthRest /\ SvcRest

SpecBatch == InitBatchSpec /\ [][NextBatch]_vars

InitAuthSpec == InitAuth /\ CloneRest /\ BatchRest /\ SvcRest

SpecAuth == InitAuthSpec /\ [][NextAuth]_vars

InitSvcSpec == InitSvc /\ CloneRest /\ BatchRest /\ AuthRest

SpecSvc == InitSvcSpec /\ [][NextSvc]_vars

====
